---- MODULE Spec2Model ----
(***************************************************************************)
(* Model of scripts/diagnose.py: the diagnosis confidence-scoring engine.  *)
(*                                                                         *)
(* Python floats are modelled as exact rationals [n, d] in lowest terms    *)
(* with d > 0; float('inf') is the record with d = 0.  Python str values   *)
(* that the code inspects (symptoms, disease names) are sequences of       *)
(* one-character strings, so that lower(), replace() and split() are       *)
(* computed character by character.  Python dicts are functions from key   *)
(* strings to values.                                                      *)
(***************************************************************************)
EXTENDS Integers, Sequences, FiniteSets, TLC

----------------------------------------------------------------------------
(* Bounds of the model *)

\* longest candidate list the retrieval stage returns (top_k ranges 1..MaxTopK)
MaxTopK == 3

\* most characters the two symptom texts of a direct call of
\* calculate_symptom_overlap have together
MaxTextLen == 4

\* most elements by which the model output may be shorter or longer than 768
MaxDimDelta == 1

----------------------------------------------------------------------------
(* float arithmetic *)

Abs(x) == IF x < 0 THEN -x ELSE x

RECURSIVE GCD(_, _)
GCD(a, b) == IF b = 0 THEN a ELSE GCD(b, a % b)

\* the float n/d, d # 0
Rat(n, d) ==
    LET g == GCD(Abs(n), Abs(d))
        s == IF d < 0 THEN -1 ELSE 1
    IN  [n |-> (s * n) \div g, d |-> (s * d) \div g]

Zero == [n |-> 0, d |-> 1]

\* float('inf')
Inf == [n |-> 1, d |-> 0]

IsFinite(x) == x.d # 0

RSub(x, y) == Rat(x.n * y.d - y.n * x.d, x.d * y.d)

RAdd(x, y) == Rat(x.n * y.d + y.n * x.d, x.d * y.d)

\* x / y for y # 0
RDiv(x, y) == Rat(x.n * y.d, x.d * y.n)

\* x > 0
RPos(x) == x.n > 0

\* x >= y, both finite
RGeq(x, y) == x.n * y.d >= y.n * x.d

RECURSIVE RSum(_)
RSum(s) == IF s = <<>> THEN Zero ELSE RAdd(Head(s), RSum(Tail(s)))

----------------------------------------------------------------------------
(* str operations *)

UpperCase == <<"A", "B", "C", "D", "E", "F", "G", "H", "I", "J", "K", "L", "M",
               "N", "O", "P", "Q", "R", "S", "T", "U", "V", "W", "X", "Y", "Z">>

LowerCase == <<"a", "b", "c", "d", "e", "f", "g", "h", "i", "j", "k", "l", "m",
               "n", "o", "p", "q", "r", "s", "t", "u", "v", "w", "x", "y", "z">>

Whitespace == {" ", "\t", "\n", "\r"}

\* the lower-case letter of each upper-case letter
LowerOf == [c \in {UpperCase[i] : i \in 1..26} |->
               LowerCase[CHOOSE i \in 1..26 : UpperCase[i] = c]]

LowerChar(c) == IF c \in DOMAIN LowerOf THEN LowerOf[c] ELSE c

\* str.lower()
lower(s) == [i \in 1..Len(s) |-> LowerChar(s[i])]

\* str.replace(old, new) for one-character old and new
replace(s, old, new) == [i \in 1..Len(s) |-> IF s[i] = old THEN new ELSE s[i]]

\* str.split(): the maximal runs of non-whitespace characters, in order
RECURSIVE SplitFrom(_, _, _)
SplitFrom(s, cur, acc) ==
    IF s = <<>>
    THEN IF cur = <<>> THEN acc ELSE Append(acc, cur)
    ELSE IF Head(s) \in Whitespace
         THEN SplitFrom(Tail(s), <<>>, IF cur = <<>> THEN acc ELSE Append(acc, cur))
         ELSE SplitFrom(Tail(s), Append(cur, Head(s)), acc)

split(s) == SplitFrom(s, <<>>, <<>>)

\* set(list)
ToSet(s) == {s[i] : i \in 1..Len(s)}

----------------------------------------------------------------------------
(* calculate_symptom_overlap *)

common_words ==
    { <<"a", "n", "d">>, <<"o", "r">>, <<"t", "h", "e">>, <<"i", "n">>,
      <<"o", "n">>, <<"a", "t">>, <<"t", "o">>, <<"o", "f">>,
      <<"w", "i", "t", "h">>, <<"m", "a", "y">>, <<"c", "a", "n">> }

process_symptoms(symptoms) ==
    LET words == ToSet(split(replace(replace(lower(symptoms), ",", " "), ".", " ")))
    IN  words \ common_words

\* the total taken as len(primary_set) + len(alternative_set)
JaccardRatioOfSum(primary_set, alternative_set) ==
    LET overlap == Cardinality(primary_set \cap alternative_set)
        total   == Cardinality(primary_set) + Cardinality(alternative_set)
    IN  IF total > 0 THEN Rat(overlap, total) ELSE Zero

\* overlap / total if total > 0 else 0.0
JaccardRatio(primary_set, alternative_set) ==
    LET overlap == Cardinality(primary_set \cap alternative_set)
        total   == Cardinality(primary_set \cup alternative_set)
    IN  IF total > 0 THEN Rat(overlap, total) ELSE Zero

calculate_symptom_overlap(primary_symptoms, alternative_symptoms) ==
    IF primary_symptoms = <<>> \/ alternative_symptoms = <<>>
    THEN Zero
    ELSE LET primary_set     == process_symptoms(primary_symptoms)
             alternative_set == process_symptoms(alternative_symptoms)
         IN  IF primary_set = {} \/ alternative_set = {}
             THEN Zero
             ELSE JaccardRatio(primary_set, alternative_set)

----------------------------------------------------------------------------
(* calculate_seasonal_relevance *)

bacterial_spot == <<"b", "a", "c", "t", "e", "r", "i", "a", "l", " ", "s", "p", "o", "t">>

early_blight == <<"e", "a", "r", "l", "y", " ", "b", "l", "i", "g", "h", "t">>

late_blight == <<"l", "a", "t", "e", " ", "b", "l", "i", "g", "h", "t">>

leaf_mold == <<"l", "e", "a", "f", " ", "m", "o", "l", "d">>

septoria_leaf_spot ==
    <<"s", "e", "p", "t", "o", "r", "i", "a", " ", "l", "e", "a", "f", " ", "s", "p", "o", "t">>

seasonal_patterns ==
    (bacterial_spot     :> [peak_months |-> {6, 7, 8},    moderate_months |-> {5, 9}])  @@
    (early_blight       :> [peak_months |-> {7, 8},       moderate_months |-> {6, 9}])  @@
    (late_blight        :> [peak_months |-> {8, 9},       moderate_months |-> {7, 10}]) @@
    (leaf_mold          :> [peak_months |-> {6, 7, 8, 9}, moderate_months |-> {5, 10}]) @@
    (septoria_leaf_spot :> [peak_months |-> {7, 8},       moderate_months |-> {6, 9}])

\* the lookup made with disease_name instead of disease_name.lower()
SeasonalRelevanceCaseSensitive(disease_name, current_month) ==
    IF disease_name \notin DOMAIN seasonal_patterns
    THEN Rat(5, 10)
    ELSE LET pattern == seasonal_patterns[disease_name]
         IN  IF current_month \in pattern.peak_months
             THEN Rat(1, 1)
             ELSE IF current_month \in pattern.moderate_months
                  THEN Rat(7, 10)
                  ELSE Rat(3, 10)

\* current_month is the value of datetime.now().month read by the call
calculate_seasonal_relevance(disease_name, current_month) ==
    IF lower(disease_name) \notin DOMAIN seasonal_patterns
    THEN Rat(5, 10)
    ELSE LET pattern == seasonal_patterns[lower(disease_name)]
         IN  IF current_month \in pattern.peak_months
             THEN Rat(1, 1)
             ELSE IF current_month \in pattern.moderate_months
                  THEN Rat(7, 10)
                  ELSE Rat(3, 10)

----------------------------------------------------------------------------
(* dicts *)

\* dict.get(key, default)
Get(dict, key, default) == IF key \in DOMAIN dict THEN dict[key] ELSE default

\* {}
EmptyDict == [key \in {} |-> Zero]

Unknown == <<"U", "n", "k", "n", "o", "w", "n">>

UnknownDisease ==
    <<"U", "n", "k", "n", "o", "w", "n", " ", "D", "i", "s", "e", "a", "s", "e">>

NoSymptoms ==
    <<"N", "o", " ", "s", "y", "m", "p", "t", "o", "m", "s", " ", "i", "n", "f", "o", "r",
      "m", "a", "t", "i", "o", "n", " ", "a", "v", "a", "i", "l", "a", "b", "l", "e">>

----------------------------------------------------------------------------
(* calculate_confidence_metrics *)

\* confidences = [d.get("similarity", 0.0) for d in similar_diseases]
Confidences(similar_diseases) ==
    [i \in 1..Len(similar_diseases) |-> Get(similar_diseases[i], "similarity", Zero)]

\* the quotient taken the wrong way round
RelativeConfidenceSwapped(primary_confidence, second_confidence) ==
    IF RPos(second_confidence)
    THEN RDiv(second_confidence, primary_confidence)
    ELSE Inf

\* primary_confidence / confidences[1] if confidences[1] > 0 else float('inf')
RelativeConfidence(primary_confidence, second_confidence) ==
    IF RPos(second_confidence)
    THEN RDiv(primary_confidence, second_confidence)
    ELSE Inf

\* the margin taken between the larger and the smaller of the two scores,
\* as if the list had been sorted first
ConfidenceMarginSorted(primary_confidence, second_confidence) ==
    IF RGeq(primary_confidence, second_confidence)
    THEN RSub(primary_confidence, second_confidence)
    ELSE RSub(second_confidence, primary_confidence)

\* primary_confidence - confidences[1]
ConfidenceMargin(primary_confidence, second_confidence) ==
    RSub(primary_confidence, second_confidence)

\* (primary_confidence - avg_other_confidence) / primary_confidence
\*     if primary_confidence > 0 else 0.0
DiagnosisClarity(confidences) ==
    LET primary_confidence   == confidences[1]
        others               == Tail(confidences)
        avg_other_confidence == RDiv(RSum(others), Rat(Len(others), 1))
    IN  IF RPos(primary_confidence)
        THEN RDiv(RSub(primary_confidence, avg_other_confidence), primary_confidence)
        ELSE Zero

\* one entry of metrics["symptom_overlap"], for one alternative
OverlapEntry(primary_symptoms, disease) ==
    [disease       |-> Get(disease, "disease_name", Unknown),
     overlap_score |-> calculate_symptom_overlap(primary_symptoms,
                                                 Get(disease, "symptoms", <<>>))]

\* the loop running over similar_diseases instead of similar_diseases[1:]
SymptomOverlapAll(similar_diseases) ==
    LET primary_symptoms == Get(similar_diseases[1], "symptoms", <<>>)
    IN  [i \in 1..Len(similar_diseases) |->
            OverlapEntry(primary_symptoms, similar_diseases[i])]

\* the entries appended for similar_diseases[1:], in order
SymptomOverlap(similar_diseases) ==
    LET primary_symptoms == Get(similar_diseases[1], "symptoms", <<>>)
    IN  [i \in 1..(Len(similar_diseases) - 1) |->
            OverlapEntry(primary_symptoms, similar_diseases[i + 1])]

\* an empty list answered with the dict of defaults instead of {}
ZeroedReport ==
    [absolute_confidence |-> Zero,
     relative_confidence |-> Zero,
     confidence_margin   |-> Zero,
     diagnosis_clarity   |-> Zero,
     symptom_overlap     |-> <<>>,
     seasonal_relevance  |-> Zero]

\* return {}
EmptyReport == EmptyDict

\* the seasonal score computed outside the more-than-one-candidate branch
BasicMetricsWithSeason(similar_diseases, current_month) ==
    [absolute_confidence |-> Confidences(similar_diseases)[1],
     relative_confidence |-> Zero,
     confidence_margin   |-> Zero,
     diagnosis_clarity   |-> Zero,
     symptom_overlap     |-> <<>>,
     seasonal_relevance  |->
         calculate_seasonal_relevance(
             Get(similar_diseases[1], "disease_name", <<>>), current_month)]

\* the metrics dict as first built, before the comparative fields are filled in
BasicMetrics(similar_diseases, current_month) ==
    [absolute_confidence |-> Confidences(similar_diseases)[1],
     relative_confidence |-> Zero,
     confidence_margin   |-> Zero,
     diagnosis_clarity   |-> Zero,
     symptom_overlap     |-> <<>>,
     seasonal_relevance  |-> Zero]

\* the metrics dict after the branch taken when there is more than one candidate
ComparativeMetrics(similar_diseases, current_month) ==
    LET confidences        == Confidences(similar_diseases)
        primary_confidence == confidences[1]
    IN  [absolute_confidence |-> primary_confidence,
         relative_confidence |-> RelativeConfidence(primary_confidence, confidences[2]),
         confidence_margin   |-> ConfidenceMargin(primary_confidence, confidences[2]),
         diagnosis_clarity   |-> DiagnosisClarity(confidences),
         symptom_overlap     |-> SymptomOverlap(similar_diseases),
         seasonal_relevance  |->
             calculate_seasonal_relevance(
                 Get(similar_diseases[1], "disease_name", <<>>), current_month)]

\* current_month is read only when there are at least two candidates
calculate_confidence_metrics(similar_diseases, current_month) ==
    IF similar_diseases = <<>>
    THEN EmptyReport
    ELSE IF Len(Confidences(similar_diseases)) > 1
         THEN ComparativeMetrics(similar_diseases, current_month)
         ELSE BasicMetrics(similar_diseases, current_month)

----------------------------------------------------------------------------
(* diagnose_plant_disease: the results it returns *)

ModelLoadFailure ==
    [success |-> FALSE, error |-> "Failed to load CLIP model", details |-> "str(e)"]

EmbeddingFailure ==
    [success |-> FALSE, error |-> "Failed to generate image embedding"]

\* the empty-result branch returning the message of the embedding branch
NoMatchesFailureAsEmbedding ==
    [success |-> FALSE, error |-> "Failed to generate image embedding"]

NoMatchesFailure ==
    [success |-> FALSE, error |-> "No similar diseases found"]

\* one entry of results["alternative_diagnoses"]
AlternativeEntry(disease) ==
    [disease_name |-> Get(disease, "disease_name", UnknownDisease),
     confidence   |-> Get(disease, "similarity", Zero),
     description  |-> Get(disease, "description", "No description available")]

\* the comprehension running over similar_diseases instead of similar_diseases[1:]
AlternativeDiagnosesAll(similar_diseases) ==
    [i \in 1..Len(similar_diseases) |-> AlternativeEntry(similar_diseases[i])]

AlternativeDiagnoses(similar_diseases) ==
    [i \in 1..(Len(similar_diseases) - 1) |-> AlternativeEntry(similar_diseases[i + 1])]

\* results["diagnosis"]["confidence_metrics"]
ResultMetrics(confidence_metrics) ==
    [relative_confidence |-> Get(confidence_metrics, "relative_confidence", Zero),
     confidence_margin   |-> Get(confidence_metrics, "confidence_margin", Zero),
     diagnosis_clarity   |-> Get(confidence_metrics, "diagnosis_clarity", Zero),
     symptom_overlap     |-> Get(confidence_metrics, "symptom_overlap", <<>>),
     seasonal_relevance  |-> Get(confidence_metrics, "seasonal_relevance", Zero)]

\* results["diagnosis"]
Diagnosis(similar_diseases, confidence_metrics) ==
    LET primary == similar_diseases[1]
    IN  [primary_disease    |-> Get(primary, "disease_name", UnknownDisease),
         confidence         |-> Get(primary, "similarity", Zero),
         description        |-> Get(primary, "description", "No description available"),
         symptoms           |-> Get(primary, "symptoms", NoSymptoms),
         recommendation     |-> Get(primary, "recommendation", "No recommendations available"),
         confidence_metrics |-> ResultMetrics(confidence_metrics)]

\* the value returned once retrieval has produced similar_diseases
FormatResults(similar_diseases, confidence_metrics) ==
    IF similar_diseases = <<>>
    THEN NoMatchesFailure
    ELSE [success               |-> TRUE,
          diagnosis             |-> Diagnosis(similar_diseases, confidence_metrics),
          alternative_diagnoses |-> AlternativeDiagnoses(similar_diseases)]

----------------------------------------------------------------------------
(* generate_clip_embedding *)

\* the expected number of dimensions
EmbeddingDim == 768

\* the values of an Optional[np.ndarray] local; the elements of an array are
\* integers standing for floats, 0 for 0.0
Unset == [kind |-> "unset", value |-> <<>>]

NoneValue == [kind |-> "None", value |-> <<>>]

Array(elements) == [kind |-> "vector", value |-> elements]

\* np.pad(array, (0, after)): zeros appended
np_pad(array, after) == array \o [i \in 1..after |-> 0]

\* the block without its slice: a longer output is left as it is
EnsureDimensionsPadOnly(embedding) ==
    IF Len(embedding) < EmbeddingDim
    THEN np_pad(embedding, EmbeddingDim - Len(embedding))
    ELSE embedding

\* the block under "Ensure 768 dimensions"
EnsureDimensions(embedding) ==
    IF Len(embedding) # EmbeddingDim
    THEN IF Len(embedding) < EmbeddingDim
         THEN np_pad(embedding, EmbeddingDim - Len(embedding))
         ELSE SubSeq(embedding, 1, EmbeddingDim)
    ELSE embedding

\* the value returned: None when the image could not be loaded or anything
\* raised, otherwise the model output brought to 768 dimensions
generate_clip_embedding(image_loaded, raised, image_features) ==
    IF ~image_loaded \/ raised
    THEN NoneValue
    ELSE Array(EnsureDimensions(image_features))

----------------------------------------------------------------------------
(* find_similar_diseases *)

\* result.data, or [] when anything inside the try raises: the RPC, or
\* embedding.tolist() on a value that is not an array
find_similar_diseases(query, rpc_raised, data) ==
    IF query.kind # "vector" \/ rpc_raised THEN <<>> ELSE data

----------------------------------------------------------------------------
(* Inputs *)

\* the lengths of the row that model.encode_image returns
FeatureLengths ==
    {1} \cup ((EmbeddingDim - MaxDimDelta)..(EmbeddingDim + MaxDimDelta))

\* a row of that length; its i-th element is i, so that no two are alike
\* and none is 0
ImageFeatures(len) == [i \in 1..len |-> i]

\* rows of the reference table, joined to each match by the retrieval RPC
EarlyBlight ==
    [disease_name   |-> <<"E", "a", "r", "l", "y", " ", "B", "l", "i", "g", "h", "t">>,
     description    |-> "Alternaria solani",
     symptoms       |-> <<"D", "a", "r", "k", " ", "s", "p", "o", "t", "s", ".">>,
     recommendation |-> "Remove affected leaves"]

LateBlight ==
    [disease_name   |-> <<"L", "a", "t", "e", " ", "B", "l", "i", "g", "h", "t">>,
     description    |-> "Phytophthora infestans",
     symptoms       |-> <<"d", "a", "r", "k", ",", "f", "u", "z", "z", "y", " ", "r", "o", "t">>,
     recommendation |-> "Remove infected plants"]

\* a row whose name is not in the seasonal table
Healthy ==
    [disease_name   |-> <<"H", "e", "a", "l", "t", "h", "y">>,
     description    |-> "No signs of disease",
     symptoms       |-> <<"n", "o", "n", "e">>,
     recommendation |-> "Continue monitoring"]

\* one row returned by match_disease_images: a reference row and its similarity
Match(reference, similarity) ==
    [disease_name   |-> reference.disease_name,
     similarity     |-> similarity,
     description    |-> reference.description,
     symptoms       |-> reference.symptoms,
     recommendation |-> reference.recommendation]

\* the rows retrieval may return: similarities 0.99, 0.92, 0.61, 0.0 and -0.5
Candidate ==
    {Match(EarlyBlight, sim) : sim \in {Rat(92, 100), Rat(61, 100), Zero}} \cup
    {Match(LateBlight, sim) : sim \in {Rat(61, 100), Zero, Rat(-1, 2)}} \cup
    {Match(Healthy, Rat(99, 100))}

\* the lists of at most k rows; the code neither sorts nor validates them
CandidateLists(k) == UNION {[1..len -> Candidate] : len \in 0..k}

\* characters of the symptom texts passed to a direct call
TextAlphabet == {"o", "N", " ", ",", "."}

\* the texts of exactly len characters
TextsOfLen(len) == [1..len -> TextAlphabet]

\* the pairs of texts of at most MaxTextLen characters together
TextPairs ==
    UNION { TextsOfLen(lens[1]) \X TextsOfLen(lens[2]) :
                lens \in { l \in (0..MaxTextLen) \X (0..MaxTextLen) :
                               l[1] + l[2] <= MaxTextLen } }

\* names passed to a direct call of calculate_seasonal_relevance
DiseaseNames ==
    DOMAIN seasonal_patterns \cup {c.disease_name : c \in Candidate} \cup
    { <<>>,
      <<"L", "E", "A", "F", " ", "M", "O", "L", "D">>,
      <<"e", "a", "r", "l", "y", " ", "b", "l", "i", "g", "h", "t", " ">>,
      <<"T", "o", "m", "a", "t", "o", " ", "E", "a", "r", "l", "y", " ",
        "B", "l", "i", "g", "h", "t">>,
      <<"S", "e", "p", "t", "o", "r", "i", "a", " ", "L", "e", "a", "f", " ", "S", "p", "o", "t">> }

Months == 1..12

----------------------------------------------------------------------------
(* State *)

VARIABLES
    call,               \* the function of diagnose.py that was called last
    pc,                 \* position in that call
    top_k,              \* argument of diagnose_plant_disease
    embedding,          \* local of diagnose_plant_disease, or value returned by
                        \* generate_clip_embedding
    image_features,     \* the model output inside generate_clip_embedding
    stages,             \* history: the stages diagnose_plant_disease has run,
                        \* each with its outcome
    similar_diseases,   \* retrieval result, or argument of calculate_confidence_metrics
    current_month,      \* datetime.now().month as read by the call, 0 if not read
    confidence_metrics, \* value returned by calculate_confidence_metrics
    results,            \* value returned by diagnose_plant_disease
    symptoms_args,      \* <<primary_symptoms, alternative_symptoms>>
    overlap,            \* value returned by calculate_symptom_overlap
    name_arg,           \* disease_name argument of calculate_seasonal_relevance
    relevance           \* value returned by calculate_seasonal_relevance

vars == <<call, pc, top_k, embedding, image_features, stages, similar_diseases, current_month,
          confidence_metrics, results, symptoms_args, overlap, name_arg, relevance>>

Init ==
    /\ call = "none"
    /\ pc = "idle"
    /\ top_k = 0
    /\ embedding = Unset
    /\ image_features = <<>>
    /\ stages = <<>>
    /\ similar_diseases = <<>>
    /\ current_month = 0
    /\ confidence_metrics = EmptyDict
    /\ results = EmptyDict
    /\ symptoms_args = <<>>
    /\ overlap = Zero
    /\ name_arg = <<>>
    /\ relevance = Zero

\* no call is in progress
Quiescent == pc = "idle"

----------------------------------------------------------------------------
(* diagnose_plant_disease, stage by stage *)

\* the call is made with some top_k
DiagnoseStart ==
    /\ Quiescent
    /\ \E k \in 1..MaxTopK : top_k' = k
    /\ call' = "diagnose_plant_disease"
    /\ pc' = "load"
    /\ embedding' = Unset
    /\ image_features' = <<>>
    /\ stages' = <<>>
    /\ similar_diseases' = <<>>
    /\ current_month' = 0
    /\ confidence_metrics' = EmptyDict
    /\ results' = EmptyDict
    /\ symptoms_args' = <<>>
    /\ overlap' = Zero
    /\ name_arg' = <<>>
    /\ relevance' = Zero

\* an entry of the history
Stage(name, outcome) == [stage |-> name, outcome |-> outcome]

\* clip.load succeeds or raises
LoadModel ==
    /\ call = "diagnose_plant_disease" /\ pc = "load"
    /\ \/ /\ pc' = "embed"
          /\ stages' = Append(stages, Stage("load", "loaded"))
          /\ UNCHANGED results
       \/ /\ pc' = "returned"
          /\ stages' = Append(stages, Stage("load", "raised"))
          /\ results' = ModelLoadFailure
    /\ UNCHANGED <<call, top_k, embedding, image_features, similar_diseases, current_month,
                   confidence_metrics, symptoms_args, overlap, name_arg, relevance>>

\* the call without the None check: retrieval always follows
AfterEmbeddingUnchecked(value) == "retrieve"

\* "if embedding is None: return ...", otherwise on to the retrieval
AfterEmbedding(value) == IF value = NoneValue THEN "returned" ELSE "retrieve"

\* generate_clip_embedding returns None (no image, or something raised) or
\* an array; None ends the call
GenerateEmbedding ==
    /\ call = "diagnose_plant_disease" /\ pc = "embed"
    /\ \/ /\ \E image_loaded, raised \in BOOLEAN :
                /\ ~image_loaded \/ raised
                /\ embedding' = generate_clip_embedding(image_loaded, raised, <<>>)
          /\ image_features' = <<>>
       \/ \E len \in FeatureLengths :
             /\ image_features' = ImageFeatures(len)
             /\ embedding' = generate_clip_embedding(TRUE, FALSE, image_features')
    /\ stages' = Append(stages, Stage("embed", IF embedding' = NoneValue
                                               THEN "None" ELSE "array"))
    /\ pc' = AfterEmbedding(embedding')
    /\ results' = IF pc' = "returned" THEN EmbeddingFailure ELSE results
    /\ UNCHANGED <<call, top_k, similar_diseases, current_month,
                   confidence_metrics, symptoms_args, overlap, name_arg, relevance>>

\* find_similar_diseases returns result.data, or [] when the RPC raises
FindSimilar ==
    /\ call = "diagnose_plant_disease" /\ pc = "retrieve"
    /\ \E rpc_raised \in BOOLEAN :
          /\ \/ \E data \in CandidateLists(top_k) :
                   similar_diseases' = find_similar_diseases(embedding, rpc_raised, data)
             \/ similar_diseases' = find_similar_diseases(embedding, rpc_raised, <<>>)
          /\ stages' = Append(stages, Stage("retrieve",
                            IF embedding.kind # "vector" \/ rpc_raised THEN "raised"
                            ELSE IF similar_diseases' = <<>> THEN "empty" ELSE "rows"))
    /\ pc' = "assemble"
    /\ image_features' = <<>>
    /\ UNCHANGED <<call, top_k, embedding, current_month, confidence_metrics, results,
                   symptoms_args, overlap, name_arg, relevance>>

\* the rest of the call: the empty check, the metrics and the formatting;
\* the array is no part of what is returned
Assemble ==
    /\ call = "diagnose_plant_disease" /\ pc = "assemble"
    /\ \E now \in Months :
          /\ current_month' = IF Len(similar_diseases) > 1 THEN now ELSE 0
          /\ confidence_metrics' =
                 IF similar_diseases = <<>>
                 THEN confidence_metrics
                 ELSE calculate_confidence_metrics(similar_diseases, now)
    /\ results' = FormatResults(similar_diseases, confidence_metrics')
    /\ pc' = "returned"
    /\ embedding' = Unset
    /\ UNCHANGED <<call, top_k, image_features, stages, similar_diseases,
                   symptoms_args, overlap, name_arg, relevance>>

----------------------------------------------------------------------------
(* The other functions of the module, called directly *)

CallConfidenceMetrics ==
    /\ Quiescent
    /\ \E list \in CandidateLists(MaxTopK), now \in Months :
          /\ similar_diseases' = list
          /\ current_month' = IF Len(list) > 1 THEN now ELSE 0
          /\ confidence_metrics' = calculate_confidence_metrics(list, now)
    /\ call' = "calculate_confidence_metrics"
    /\ pc' = "returned"
    /\ top_k' = 0
    /\ embedding' = Unset
    /\ image_features' = <<>>
    /\ stages' = <<>>
    /\ results' = EmptyDict
    /\ symptoms_args' = <<>>
    /\ overlap' = Zero
    /\ name_arg' = <<>>
    /\ relevance' = Zero

CallSymptomOverlap ==
    /\ Quiescent
    /\ \E pair \in TextPairs :
          /\ symptoms_args' = pair
          /\ overlap' = calculate_symptom_overlap(pair[1], pair[2])
    /\ call' = "calculate_symptom_overlap"
    /\ pc' = "returned"
    /\ top_k' = 0
    /\ embedding' = Unset
    /\ image_features' = <<>>
    /\ stages' = <<>>
    /\ similar_diseases' = <<>>
    /\ current_month' = 0
    /\ confidence_metrics' = EmptyDict
    /\ results' = EmptyDict
    /\ name_arg' = <<>>
    /\ relevance' = Zero

CallSeasonalRelevance ==
    /\ Quiescent
    /\ \E disease_name \in DiseaseNames, now \in Months :
          /\ name_arg' = disease_name
          /\ current_month' = now
          /\ relevance' = calculate_seasonal_relevance(disease_name, now)
    /\ call' = "calculate_seasonal_relevance"
    /\ pc' = "returned"
    /\ top_k' = 0
    /\ embedding' = Unset
    /\ image_features' = <<>>
    /\ stages' = <<>>
    /\ similar_diseases' = <<>>
    /\ confidence_metrics' = EmptyDict
    /\ results' = EmptyDict
    /\ symptoms_args' = <<>>
    /\ overlap' = Zero

CallGenerateClipEmbedding ==
    /\ Quiescent
    /\ \/ /\ \E image_loaded, raised \in BOOLEAN :
                /\ ~image_loaded \/ raised
                /\ embedding' = generate_clip_embedding(image_loaded, raised, <<>>)
          /\ image_features' = <<>>
       \/ \E len \in FeatureLengths :
             /\ image_features' = ImageFeatures(len)
             /\ embedding' = generate_clip_embedding(TRUE, FALSE, image_features')
    /\ call' = "generate_clip_embedding"
    /\ stages' = <<>>
    /\ pc' = "returned"
    /\ top_k' = 0
    /\ similar_diseases' = <<>>
    /\ current_month' = 0
    /\ confidence_metrics' = EmptyDict
    /\ results' = EmptyDict
    /\ symptoms_args' = <<>>
    /\ overlap' = Zero
    /\ name_arg' = <<>>
    /\ relevance' = Zero

\* the caller takes the returned value; the call's locals are discarded
Return ==
    /\ pc = "returned"
    /\ call' = "none"
    /\ pc' = "idle"
    /\ top_k' = 0
    /\ embedding' = Unset
    /\ image_features' = <<>>
    /\ stages' = <<>>
    /\ similar_diseases' = <<>>
    /\ current_month' = 0
    /\ confidence_metrics' = EmptyDict
    /\ results' = EmptyDict
    /\ symptoms_args' = <<>>
    /\ overlap' = Zero
    /\ name_arg' = <<>>
    /\ relevance' = Zero

Next ==
    \/ DiagnoseStart
    \/ LoadModel
    \/ GenerateEmbedding
    \/ FindSimilar
    \/ Assemble
    \/ CallConfidenceMetrics
    \/ CallSymptomOverlap
    \/ CallSeasonalRelevance
    \/ CallGenerateClipEmbedding
    \/ Return

Spec == Init /\ [][Next]_vars

----------------------------------------------------------------------------
(* Properties *)

\* diagnose_plant_disease has returned after running the retrieval stage
Assembled ==
    /\ call = "diagnose_plant_disease" /\ pc = "returned"
    /\ Len(stages) = 3

\* a direct call of calculate_confidence_metrics has returned
MetricsReturned ==
    call = "calculate_confidence_metrics" /\ pc = "returned"

HasPayload(r) == "diagnosis" \in DOMAIN r \/ "alternative_diagnoses" \in DOMAIN r

\* C1 as stated: when retrieval returns no match, diagnose_plant_disease
\* returns success = false with error "no similar matches found" and no
\* diagnosis payload.
C1_ErrorTextAsClaimed ==
    (Assembled /\ similar_diseases = <<>>) =>
        /\ results.success = FALSE
        /\ results.error = "no similar matches found"
        /\ ~HasPayload(results)

\* C1 amended: when retrieval returns no match, diagnose_plant_disease
\* returns success = false with error "No similar diseases found" and
\* neither a 'diagnosis' nor an 'alternative_diagnoses' field.
C1_EmptyCandidatesFail ==
    (Assembled /\ similar_diseases = <<>>) =>
        /\ results.success = FALSE
        /\ results.error = "No similar diseases found"
        /\ ~HasPayload(results)

C1_Witness ==
    /\ Assembled
    /\ similar_diseases = <<>>
    /\ "error" \in DOMAIN results

MetricsFields ==
    {"absolute_confidence", "relative_confidence", "confidence_margin",
     "diagnosis_clarity", "symptom_overlap", "seasonal_relevance"}

\* C2 as stated: calculate_confidence_metrics applied to an empty list
\* returns a report in which every numeric field is present and 0.0 and
\* symptom_overlap is present and empty.
C2_ZeroedReportAsClaimed ==
    (MetricsReturned /\ similar_diseases = <<>>) =>
        /\ DOMAIN confidence_metrics = MetricsFields
        /\ \A f \in MetricsFields \ {"symptom_overlap"} : confidence_metrics[f] = Zero
        /\ confidence_metrics.symptom_overlap = <<>>

\* C2 amended: calculate_confidence_metrics applied to an empty list
\* returns an empty mapping: none of the report's fields is present.
C2_EmptyListGivesEmptyDict ==
    (MetricsReturned /\ similar_diseases = <<>>) =>
        DOMAIN confidence_metrics = {}

C2_Witness ==
    /\ MetricsReturned
    /\ similar_diseases = <<>>
    /\ confidence_metrics = EmptyDict

\* the comparative fields of a metrics dict are at their defaults
ComparativeZero(m) ==
    /\ m.relative_confidence = Zero
    /\ m.confidence_margin = Zero
    /\ m.diagnosis_clarity = Zero
    /\ m.seasonal_relevance = Zero
    /\ m.symptom_overlap = <<>>

\* C3: for a candidate list of length 1 the result is a success whose
\* confidence is the candidate's similarity, whose relative_confidence,
\* confidence_margin, diagnosis_clarity and seasonal_relevance are 0.0, whose
\* symptom_overlap is empty and whose alternative_diagnoses is empty; the
\* clock is not read, whatever the disease name.
C3_SingleCandidate ==
    /\ (Assembled /\ Len(similar_diseases) = 1) =>
          /\ results.success = TRUE
          /\ results.diagnosis.confidence = similar_diseases[1].similarity
          /\ ComparativeZero(results.diagnosis.confidence_metrics)
          /\ results.alternative_diagnoses = <<>>
          /\ current_month = 0
    /\ (MetricsReturned /\ Len(similar_diseases) = 1) =>
          /\ confidence_metrics.absolute_confidence = similar_diseases[1].similarity
          /\ ComparativeZero(confidence_metrics)
          /\ current_month = 0

\* a single candidate whose name is in the seasonal table has been diagnosed
C3_Witness ==
    /\ Assembled
    /\ Len(similar_diseases) = 1
    /\ lower(similar_diseases[1].disease_name) \in DOMAIN seasonal_patterns
    /\ RPos(similar_diseases[1].similarity)
    /\ "diagnosis" \in DOMAIN results

\* a report for at least two candidates has been returned, by either route
ComparedReturned ==
    /\ Assembled \/ MetricsReturned
    /\ Len(similar_diseases) >= 2

\* q is the quotient x / y
IsQuotient(q, x, y) ==
    /\ IsFinite(q)
    /\ q.n * y.n * x.d = x.n * q.d * y.d

\* C4 as stated: with at least two candidates and a nonzero second
\* similarity, positive or negative, relative_confidence is
\* candidates[0].similarity / candidates[1].similarity.
C4_NonzeroDenominatorAsClaimed ==
    (ComparedReturned /\ similar_diseases[2].similarity.n # 0) =>
        IsQuotient(confidence_metrics.relative_confidence,
                   similar_diseases[1].similarity, similar_diseases[2].similarity)

\* C4 amended: with at least two candidates and a positive second
\* similarity, relative_confidence is candidates[0].similarity /
\* candidates[1].similarity; with a negative second similarity no division
\* is made and the value is the one given for a zero second similarity.
\* The result of diagnose_plant_disease carries the same value.
C4_PositiveDenominator ==
    ComparedReturned =>
        /\ RPos(similar_diseases[2].similarity) =>
              IsQuotient(confidence_metrics.relative_confidence,
                         similar_diseases[1].similarity, similar_diseases[2].similarity)
        /\ similar_diseases[2].similarity.n < 0 =>
              confidence_metrics.relative_confidence =
                  RelativeConfidence(similar_diseases[1].similarity, Zero)
        /\ Assembled =>
              results.diagnosis.confidence_metrics.relative_confidence =
                  confidence_metrics.relative_confidence

\* similarities 0.92 and 0.61 give 92/61
C4_Witness ==
    /\ Assembled
    /\ Len(similar_diseases) = 2
    /\ similar_diseases[1].similarity = Rat(92, 100)
    /\ similar_diseases[2].similarity = Rat(61, 100)
    /\ results.diagnosis.confidence_metrics.relative_confidence = Rat(92, 61)

\* C5: when the second candidate's similarity is zero, relative_confidence
\* in the returned report and in the final diagnosis result is a finite,
\* representable value; no infinite value is returned to the caller.
C5_NoInfinityReturned ==
    (ComparedReturned /\ similar_diseases[2].similarity = Zero) =>
        /\ IsFinite(confidence_metrics.relative_confidence)
        /\ Assembled =>
              IsFinite(results.diagnosis.confidence_metrics.relative_confidence)

\* the list is in descending order of similarity
SortedDescending(list) ==
    \A i, j \in 1..Len(list) :
        i < j => RGeq(list[i].similarity, list[j].similarity)

\* C6: with at least two candidates, confidence_margin is
\* candidates[0].similarity - candidates[1].similarity taken in the order
\* given (the list is not re-sorted), and it is >= 0 when the list is sorted
\* descending by similarity.
C6_ConfidenceMargin ==
    ComparedReturned =>
        /\ RAdd(confidence_metrics.confidence_margin, similar_diseases[2].similarity)
               = similar_diseases[1].similarity
        /\ SortedDescending(similar_diseases) =>
               confidence_metrics.confidence_margin.n >= 0
        /\ Assembled =>
               results.diagnosis.confidence_metrics.confidence_margin =
                   confidence_metrics.confidence_margin

\* a sorted list with similarities 0.92 and 0.61 gives the margin 0.31
C6_Witness ==
    /\ Assembled
    /\ Len(similar_diseases) >= 2
    /\ SortedDescending(similar_diseases)
    /\ similar_diseases[1].similarity = Rat(92, 100)
    /\ similar_diseases[2].similarity = Rat(61, 100)
    /\ results.diagnosis.confidence_metrics.confidence_margin = Rat(31, 100)

\* C7 as stated: with N >= 2 candidates, symptom_overlap has N-1 entries,
\* the i-th for candidates[i] in the original order, each a record with
\* the fields disease_name and overlap_score.
C7_EntryFieldsAsClaimed ==
    ComparedReturned =>
        LET entries == confidence_metrics.symptom_overlap
        IN  /\ Len(entries) = Len(similar_diseases) - 1
            /\ \A i \in 1..Len(entries) :
                  /\ DOMAIN entries[i] = {"disease_name", "overlap_score"}
                  /\ entries[i].disease_name = similar_diseases[i + 1].disease_name
                  /\ entries[i].overlap_score =
                         calculate_symptom_overlap(similar_diseases[1].symptoms,
                                                   similar_diseases[i + 1].symptoms)

\* C7 amended: with N >= 2 candidates, symptom_overlap has N-1 entries, the
\* i-th for candidates[i] in the original order, each a record with the
\* fields disease (that candidate's disease_name) and overlap_score (the
\* overlap of candidates[0].symptoms with that candidate's symptoms).  The
\* result of diagnose_plant_disease carries the same sequence.
C7_SymptomOverlapEntries ==
    ComparedReturned =>
        LET entries == confidence_metrics.symptom_overlap
        IN  /\ Len(entries) = Len(similar_diseases) - 1
            /\ \A i \in 1..Len(entries) :
                  /\ DOMAIN entries[i] = {"disease", "overlap_score"}
                  /\ entries[i].disease = similar_diseases[i + 1].disease_name
                  /\ entries[i].overlap_score =
                         calculate_symptom_overlap(similar_diseases[1].symptoms,
                                                   similar_diseases[i + 1].symptoms)
            /\ Assembled =>
                  results.diagnosis.confidence_metrics.symptom_overlap = entries

\* three candidates: the two alternatives differ in name, and the first
\* alternative shares one word of four with the primary
C7_Witness ==
    /\ Assembled
    /\ Len(similar_diseases) = 3
    /\ similar_diseases[2].disease_name # similar_diseases[3].disease_name
    /\ similar_diseases[1].disease_name # similar_diseases[2].disease_name
    /\ Len(results.diagnosis.confidence_metrics.symptom_overlap) = 2
    /\ results.diagnosis.confidence_metrics.symptom_overlap[1].overlap_score = Rat(1, 4)
    /\ results.diagnosis.confidence_metrics.symptom_overlap[2].disease =
           similar_diseases[3].disease_name

\* C8: for a non-empty candidate list of length N the success result copies
\* primary_disease, confidence (= similarity), description, symptoms and
\* recommendation from candidates[0]; confidence_metrics holds the five
\* comparative fields and no absolute_confidence; alternative_diagnoses has
\* N-1 entries, the i-th being {disease_name, confidence = similarity,
\* description} of candidates[i], in the original order.
C8_SuccessResult ==
    (Assembled /\ similar_diseases # <<>>) =>
        LET primary == similar_diseases[1]
            alts    == results.alternative_diagnoses
        IN  /\ results.success = TRUE
            /\ DOMAIN results = {"success", "diagnosis", "alternative_diagnoses"}
            /\ results.diagnosis.primary_disease = primary.disease_name
            /\ results.diagnosis.confidence = primary.similarity
            /\ results.diagnosis.description = primary.description
            /\ results.diagnosis.symptoms = primary.symptoms
            /\ results.diagnosis.recommendation = primary.recommendation
            /\ DOMAIN results.diagnosis.confidence_metrics =
                   MetricsFields \ {"absolute_confidence"}
            /\ Len(alts) = Len(similar_diseases) - 1
            /\ \A i \in 1..Len(alts) :
                  alts[i] = [disease_name |-> similar_diseases[i + 1].disease_name,
                             confidence   |-> similar_diseases[i + 1].similarity,
                             description  |-> similar_diseases[i + 1].description]

\* a primary and two alternatives that differ in name, score and description
C8_Witness ==
    /\ Assembled
    /\ Len(similar_diseases) = 3
    /\ similar_diseases[1].description # similar_diseases[2].description
    /\ similar_diseases[2].description # similar_diseases[3].description
    /\ similar_diseases[1].similarity # similar_diseases[2].similarity
    /\ similar_diseases[2].similarity # similar_diseases[3].similarity
    /\ Len(results.alternative_diagnoses) = 2
    /\ results.alternative_diagnoses[2].description = similar_diseases[3].description
    /\ results.diagnosis.description = similar_diseases[1].description

\* a direct call of calculate_symptom_overlap has returned
OverlapReturned ==
    call = "calculate_symptom_overlap" /\ pc = "returned"

\* the characters that end a word: whitespace, comma and period
Separators == Whitespace \cup {",", "."}

\* the word set of a text: the maximal separator-free runs of its
\* lower-cased characters, without the stop words
WordSet(text) ==
    LET t == lower(text)
        IsWord(i, j) ==
            /\ i <= j
            /\ \A k \in i..j : t[k] \notin Separators
            /\ (i = 1 \/ t[i - 1] \in Separators)
            /\ (j = Len(t) \/ t[j + 1] \in Separators)
        runs == {q \in (1..Len(t)) \X (1..Len(t)) : IsWord(q[1], q[2])}
    IN  {SubSeq(t, q[1], q[2]) : q \in runs} \ common_words

\* C9: calculate_symptom_overlap(a, b) is the Jaccard similarity
\* |A n B| / |A u B| of the two processed word sets; it is 0.0 when either
\* input is empty or either processed set is empty, 1.0 when both inputs
\* normalize to the same non-empty word set, and always within [0, 1].
C9_SymptomOverlapIsJaccard ==
    OverlapReturned =>
        LET a == symptoms_args[1]
            b == symptoms_args[2]
            A == WordSet(a)
            B == WordSet(b)
        IN  /\ (a = <<>> \/ b = <<>> \/ A = {} \/ B = {}) => overlap = Zero
            /\ (A # {} /\ B # {}) =>
                  overlap.n * Cardinality(A \cup B) = Cardinality(A \cap B) * overlap.d
            /\ (A # {} /\ A = B) => overlap = Rat(1, 1)
            /\ overlap.d > 0 /\ 0 <= overlap.n /\ overlap.n <= overlap.d

\* two texts whose word sets share one word of two
C9_Witness ==
    /\ OverlapReturned
    /\ WordSet(symptoms_args[1]) # {}
    /\ WordSet(symptoms_args[2]) # {}
    /\ WordSet(symptoms_args[1]) # WordSet(symptoms_args[2])
    /\ overlap = Rat(1, 2)

\* a direct call of calculate_seasonal_relevance has returned
SeasonalReturned ==
    call = "calculate_seasonal_relevance" /\ pc = "returned"

\* name is key up to the case of its letters, over its whole length
SameIgnoringCase(name, key) ==
    /\ Len(name) = Len(key)
    /\ \A i \in 1..Len(name) : LowerChar(name[i]) = key[i]

\* the score the seasonal table gives a name in a month
TableScore(name, month) ==
    IF \E key \in DOMAIN seasonal_patterns : SameIgnoringCase(name, key)
    THEN LET key == CHOOSE k \in DOMAIN seasonal_patterns : SameIgnoringCase(name, k)
         IN  IF month \in seasonal_patterns[key].peak_months THEN Rat(1, 1)
             ELSE IF month \in seasonal_patterns[key].moderate_months THEN Rat(7, 10)
             ELSE Rat(3, 10)
    ELSE Rat(1, 2)

\* C10: calculate_seasonal_relevance returns one of 1.0, 0.7, 0.5, 0.3 for
\* every name and month 1..12: 0.5 when the lower-cased name is not a key of
\* the seasonal table, otherwise 1.0 in a peak month, else 0.7 in a moderate
\* month, else 0.3; a name matches a key only as a whole, ignoring case.  The
\* seasonal_relevance of a report for two or more candidates is that score
\* for the primary candidate's name.
C10_SeasonalRelevance ==
    /\ SeasonalReturned =>
          /\ relevance \in {Rat(1, 1), Rat(7, 10), Rat(1, 2), Rat(3, 10)}
          /\ relevance = TableScore(name_arg, current_month)
    /\ ComparedReturned =>
          confidence_metrics.seasonal_relevance =
              TableScore(similar_diseases[1].disease_name, current_month)

\* a name written with capitals, found in the table, in a moderate month
C10_Witness ==
    /\ SeasonalReturned
    /\ name_arg # lower(name_arg)
    /\ lower(name_arg) \in DOMAIN seasonal_patterns
    /\ relevance = Rat(7, 10)

\* generate_clip_embedding has returned an array: called directly, or as the
\* second stage of diagnose_plant_disease
EmbeddingReturned ==
    /\ embedding.kind = "vector"
    /\ \/ call = "generate_clip_embedding" /\ pc = "returned"
       \/ call = "diagnose_plant_disease" /\ pc = "retrieve"

\* C11: whatever the length L of the model output, the array returned has
\* exactly EmbeddingDim elements: the output itself when L = EmbeddingDim, the
\* output followed by EmbeddingDim - L zeros when it is shorter, its first
\* EmbeddingDim elements when it is longer; and a call that got a model
\* output returns an array, never None, whatever L is.
C11_EmbeddingNormalized ==
    /\ EmbeddingReturned =>
          LET L == Len(image_features)
              v == embedding.value
          IN  /\ Len(v) = EmbeddingDim
              /\ L = EmbeddingDim => v = image_features
              /\ L < EmbeddingDim =>
                    \A i \in 1..EmbeddingDim :
                       v[i] = IF i <= L THEN image_features[i] ELSE 0
              /\ L > EmbeddingDim =>
                    \A i \in 1..EmbeddingDim : v[i] = image_features[i]
    /\ (call = "generate_clip_embedding" /\ pc = "returned" /\ image_features # <<>>)
          => embedding.kind = "vector"

\* a model output one element short has come back padded
C11_Witness ==
    /\ EmbeddingReturned
    /\ call = "generate_clip_embedding"
    /\ Len(image_features) = EmbeddingDim - 1
    /\ Len(embedding.value) = EmbeddingDim
    /\ embedding.value[EmbeddingDim] = 0

\* the stages in the order of the code, and the outcome of each that lets
\* the next one run
StageOrder == <<"load", "embed", "retrieve">>

Succeeded == {"loaded", "array", "rows"}

\* diagnose_plant_disease has returned
DiagnoseReturned == call = "diagnose_plant_disease" /\ pc = "returned"

\* diagnose_plant_disease is about to run one of its stages
DiagnoseRunning ==
    call = "diagnose_plant_disease" /\ pc \in {"load", "embed", "retrieve"}

\* C12: whatever the stages do (the model load succeeds or raises, the
\* embedding is an array or None, the retrieval gives rows, no rows, or
\* raises), what diagnose_plant_disease returns has a success flag; with
\* success = false it has a non-empty error message and neither 'diagnosis'
\* nor 'alternative_diagnoses'; with success = true it has both, and that
\* happens only when all three stages succeeded and the candidate list is
\* not empty. The stages run in order, and a stage is only about to run when
\* every stage before it succeeded.
C12_WellFormedResult ==
    /\ DiagnoseRunning =>
          /\ \A i \in 1..Len(stages) : stages[i].outcome \in Succeeded
          /\ pc = "load" => Len(stages) = 0
          /\ pc = "embed" => Len(stages) = 1
          /\ pc = "retrieve" => Len(stages) = 2
    /\ call = "diagnose_plant_disease" =>
          /\ Len(stages) <= Len(StageOrder)
          /\ \A i \in 1..Len(stages) :
                /\ stages[i].stage = StageOrder[i]
                /\ i < Len(stages) => stages[i].outcome \in Succeeded
    /\ DiagnoseReturned =>
          /\ stages # <<>>
          /\ "success" \in DOMAIN results
          /\ results.success \in BOOLEAN
          /\ results.success = FALSE =>
                /\ "error" \in DOMAIN results
                /\ results.error # ""
                /\ ~HasPayload(results)
          /\ results.success = TRUE =>
                /\ "diagnosis" \in DOMAIN results
                /\ "alternative_diagnoses" \in DOMAIN results
                /\ Len(stages) = Len(StageOrder)
                /\ \A i \in 1..Len(stages) : stages[i].outcome \in Succeeded
                /\ similar_diseases # <<>>

\* the model loaded, the embedding was an array, the retrieval raised, and
\* the call has returned a failure
C12_Witness ==
    /\ DiagnoseReturned
    /\ Len(stages) = 3
    /\ stages[3] = Stage("retrieve", "raised")
    /\ results.success = FALSE
    /\ "error" \in DOMAIN results

====
